---- MODULE Spec2Model ----
(***************************************************************************)
(* Model of the spreadsheet record engine of gestor_audiencias_api         *)
(* (src/excel_utils.py, src/main.py).                                      *)
(*                                                                         *)
(* A workbook is modelled by the values of its active sheet below the      *)
(* header row: a function from row numbers to rows, a row being the tuple  *)
(* of the values of columns A..Q.  Only rows that hold a value are in the  *)
(* function's domain, as in the saved file.  The empty string stands for   *)
(* an empty cell (None or "" in the source, both falsy and both written as *)
(* an empty cell).  Styles are not modelled.  The number written in column *)
(* A is kept as its decimal text so that every cell value is a string.     *)
(***************************************************************************)
EXTENDS Integers, Sequences, FiniteSets, TLC

-----------------------------------------------------------------------------
(* Constants of src/excel_utils.py                                         *)

ARCHIVOS_DIR == "archivos"
PLANTILLA_PATH == "Plantillas/plantilla_base"
FILA_ENCABEZADO == 10

\* Rows between the header and the ceiling.  The source has 290 (ceiling 300,
\* header 10); the model keeps the header row and scales the distance down so
\* that record lists reach the ceiling.
Capacidad == 6
MAX_FILA_PERMITIDA == FILA_ENCABEZADO + Capacidad

COL_NRO == 1
COL_RADICADO == 2
COL_TIPO == 3
COL_FECHA == 4
COL_HORA == 5
COL_JUZGADO == 6
COL_REALIZADO_SI == 7
COL_REALIZADO_NO == 8
COL_MOTIVOS_INICIO == 9
COL_MOTIVOS_FIN == 16
COL_OBSERVACIONES == 17

TIPOS_AUDIENCIA_VALIDOS ==
  { "Alegatos de conclusion",
    "Audiencia concentrada",
    "Audiencia de acusacion",
    "Audiencia de conciliacion",
    "Audiencia de control de legalidad",
    "Audiencia de individualizacion de pena",
    "Audiencia de imputacion",
    "Audiencia de incidente de reparacion integral",
    "Audiencia de juicio oral",
    "Audiencia de medidas de aseguramiento",
    "Audiencia de nulidad",
    "Audiencia de preclusion",
    "Audiencia de prorroga",
    "Audiencia de revision de medida",
    "Audiencia de verificacion de cumplimiento",
    "Audiencia preliminar",
    "Audiencia preparatoria",
    "Otra" }

FIRMA_TEXTO == "Firma del defensor publico:__________________________"

-----------------------------------------------------------------------------
(* Inputs                                                                  *)

Reg(radicado, tipo, fecha, hora, juzgado, se_realizo, motivos, observaciones) ==
  [radicado |-> radicado, tipo_audiencia |-> tipo, fecha |-> fecha, hora |-> hora,
   juzgado |-> juzgado, se_realizo |-> se_realizo, motivos |-> motivos,
   observaciones |-> observaciones]

\* Valid records: V1 was held and still names a reason; V2 has V1's case id
\* between blanks, V1's instant written differently and blanks around its
\* type; V3 and V4 share a later instant; V5 names nine reasons.
V1 == Reg("R1", "Otra", "01/07/2024", "10:00", "J1", "si", <<"Acuerdo">>, "ok")
V2 == Reg(" R1 ", " Otra ", "1/7/2024", "10:00", "J2", "NO", <<"", "Fiscal">>, "")
V3 == Reg("R2", "Audiencia preliminar", "02/07/2024", "9:30", "J1", "no", <<"Juez">>, "")
V4 == Reg("R3", "Otra", "02/07/2024", "09:30", "J1", "No", <<"Juez", "", "Usuario">>, "nota")
V5 == Reg("R4", "Otra", "03/07/2024", "07:05", "J3", "NO",
          <<"a", "", "c", "d", "e", "f", "g", "h", "i">>, "")
\* Invalid records: a type outside the list, a day that does not exist, an
\* answer that is neither SI nor NO, no case id.
I1 == Reg("R5", "Baile", "01/07/2024", "10:00", "J1", "SI", <<>>, "")
I2 == Reg("R6", "Otra", "31/02/2024", "10:00", "J1", "SI", <<>>, "")
I3 == Reg("R7", "Otra", "01/07/2024", "10:00", "J1", "tal vez", <<>>, "")
I4 == Reg("", "Otra", "01/07/2024", "10:00", "J1", "NO", <<>>, "")

RegistrosValidos == {V1, V2, V3, V4, V5}
RegistrosInvalidos == {I1, I2, I3, I4}
\* the records given to guardar_una_audiencia_excel
Registros == RegistrosValidos \cup RegistrosInvalidos
\* the records of the arbitrary lists given to guardar_audiencias_excel
RegistrosDeLista == {V1, V3, I1}

\* longest list of arbitrary records given to guardar_audiencias_excel
MaxLen == 1

\* threads that serve requests at the same time
NumHilos == 2

ListasHasta(S, n) == UNION {[1..k -> S] : k \in 0..n}

\* Lists chosen for their order, their ties, their repeated case ids and the
\* place of an invalid record
Casos ==
  { <<V3, V4>>, <<V4, V3>>, <<V1, V3>>, <<V3, V1>>, <<V1, V2>>, <<V1, V1>>,
    <<V1, V3, V4>>, <<V4, V1, V3>>, <<V5, V2>>,
    <<V1, I1>>, <<I2, V3>>, <<V3, I3>>, <<I4, V1>> }

\* Longer lists, of valid records with the case ids B1, B2, ... over three days
RegistroLote(i) ==
  Reg("B" \o ToString(i), "Otra", ToString((i % 3) + 1) \o "/7/2024", "08:00", "J1",
      IF i % 2 = 0 THEN "SI" ELSE "NO", <<"m">>, "")
Lote(n) == [i \in 1..n |-> RegistroLote(i)]
Lotes == {Lote(n) : n \in (MaxLen + 1)..(Capacidad + 1)}

Entradas == ListasHasta(RegistrosDeLista, MaxLen) \cup Casos \cup Lotes

-----------------------------------------------------------------------------
(* Python string operations, computed character by character               *)

\* Python truthiness of a cell value or of d.get(campo)
Truthy(v) == v # ""

Char(s, i) == SubSeq(s, i, i)

\* str.lstrip() and str.rstrip(): the text from its first character that is
\* not a blank, and up to its last one
EsBlanco(s, i) == Char(s, i) = " "
LStrip(s) ==
  IF \A i \in 1..Len(s) : EsBlanco(s, i) THEN ""
  ELSE SubSeq(s, CHOOSE i \in 1..Len(s) :
                   ~EsBlanco(s, i) /\ \A k \in 1..(i - 1) : EsBlanco(s, k), Len(s))
RStrip(s) ==
  IF \A i \in 1..Len(s) : EsBlanco(s, i) THEN ""
  ELSE SubSeq(s, 1, CHOOSE i \in 1..Len(s) :
                      ~EsBlanco(s, i) /\ \A k \in (i + 1)..Len(s) : EsBlanco(s, k))

\* str.strip()
Strip(s) == RStrip(LStrip(s))

Minusculas == "abcdefghijklmnopqrstuvwxyz"
Mayusculas == "ABCDEFGHIJKLMNOPQRSTUVWXYZ"

UpperChar(c) ==
  IF \E i \in 1..26 : Char(Minusculas, i) = c
  THEN Char(Mayusculas, CHOOSE i \in 1..26 : Char(Minusculas, i) = c)
  ELSE c

RECURSIVE UpperDesde(_, _)
UpperDesde(s, i) ==
  IF i > Len(s) THEN "" ELSE UpperChar(Char(s, i)) \o UpperDesde(s, i + 1)

\* str.upper()
Upper(s) == UpperDesde(s, 1)

\* str.startswith(p)
StartsWith(s, p) == Len(s) >= Len(p) /\ SubSeq(s, 1, Len(p)) = p

\* str.endswith(p)
EndsWith(s, p) == Len(s) >= Len(p) /\ SubSeq(s, Len(s) - Len(p) + 1, Len(s)) = p

RECURSIVE SplitDesde(_, _, _, _)
\* the pieces of s from character i on, the piece being read starting at ini
SplitDesde(s, sep, ini, i) ==
  IF i > Len(s) THEN <<SubSeq(s, ini, Len(s))>>
  ELSE IF Char(s, i) = sep
       THEN <<SubSeq(s, ini, i - 1)>> \o SplitDesde(s, sep, i + 1, i + 1)
       ELSE SplitDesde(s, sep, ini, i + 1)

\* str.split(sep) for a one-character separator
Split(s, sep) == SplitDesde(s, sep, 1, 1)

Digitos == "0123456789"
IsDigit(c) == \E i \in 1..10 : Char(Digitos, i) = c
DigitVal(c) == (CHOOSE i \in 1..10 : Char(Digitos, i) = c) - 1
AllDigits(s) == Len(s) > 0 /\ \A i \in 1..Len(s) : IsDigit(Char(s, i))

RECURSIVE ToIntHasta(_, _)
ToIntHasta(s, n) ==
  IF n = 0 THEN 0 ELSE 10 * ToIntHasta(s, n - 1) + DigitVal(Char(s, n))

\* int(s) for a text of digits
ToInt(s) == ToIntHasta(s, Len(s))

\* datetime(): the day must exist in the month
EsBisiesto(y) == (y % 4 = 0 /\ y % 100 # 0) \/ y % 400 = 0
DiasDelMes(y, m) ==
  IF m = 2 THEN (IF EsBisiesto(y) THEN 29 ELSE 28)
  ELSE IF m \in {4, 6, 9, 11} THEN 30 ELSE 31

\* The directives of "%d/%m/%Y %H:%M" as strptime's regular expressions take
\* them: %d is 1-2 digits 1..31 or a space and a digit, %m 1-2 digits 1..12,
\* %Y four digits, %H 1-2 digits 0..23, %M 1-2 digits 0..59.
DiaOk(s) ==
  \/ Len(s) \in {1, 2} /\ AllDigits(s) /\ ToInt(s) \in 1..31
  \/ Len(s) = 2 /\ Char(s, 1) = " " /\ IsDigit(Char(s, 2)) /\ Char(s, 2) # "0"
DiaVal(s) == IF Char(s, 1) = " " THEN ToInt(SubSeq(s, 2, 2)) ELSE ToInt(s)
MesOk(s) == Len(s) \in {1, 2} /\ AllDigits(s) /\ ToInt(s) \in 1..12
AnioOk(s) == Len(s) = 4 /\ AllDigits(s) /\ ToInt(s) >= 1
HoraOk(s) == Len(s) \in {1, 2} /\ AllDigits(s) /\ ToInt(s) \in 0..23
MinutoOk(s) == Len(s) \in {1, 2} /\ AllDigits(s) /\ ToInt(s) \in 0..59

FECHA_INVALIDA == -1

\* datetime.strptime(fecha + " " + hora, "%d/%m/%Y %H:%M") as a number that
\* orders like the datetime, FECHA_INVALIDA where strptime raises.  The blank
\* of the format takes any run of blanks, so blanks ending fecha or starting
\* hora are skipped.
Strptime(fecha, hora) ==
  LET f == Split(RStrip(fecha), "/")
      h == Split(LStrip(hora), ":")
  IN  IF /\ Len(f) = 3 /\ Len(h) = 2
         /\ DiaOk(f[1]) /\ MesOk(f[2]) /\ AnioOk(f[3])
         /\ HoraOk(h[1]) /\ MinutoOk(h[2])
         /\ DiaVal(f[1]) <= DiasDelMes(ToInt(f[3]), ToInt(f[2]))
      THEN (((ToInt(f[3]) * 12 + ToInt(f[2])) * 31 + DiaVal(f[1])) * 24
              + ToInt(h[1])) * 60 + ToInt(h[2])
      ELSE FECHA_INVALIDA

-----------------------------------------------------------------------------
(* The same operations through tables over the texts of the inputs, which  *)
(* TLC evaluates once; a text outside the tables is computed as above.     *)

\* every record of the inputs, and the texts that are stripped or upper-cased
TodosLosRegistros ==
  <<V1, V2, V3, V4, V5, I1, I2, I3, I4>> \o [i \in 1..(Capacidad + 1) |-> RegistroLote(i)]

RECURSIVE TextosDe(_)
TextosDe(n) ==
  IF n = 0 THEN <<"", "X", "SI", "NO">>
  ELSE TextosDe(n - 1)
         \o << TodosLosRegistros[n].radicado,
               Strip(TodosLosRegistros[n].radicado),
               TodosLosRegistros[n].tipo_audiencia,
               Strip(TodosLosRegistros[n].tipo_audiencia),
               TodosLosRegistros[n].se_realizo,
               Strip(TodosLosRegistros[n].se_realizo) >>
Textos == TextosDe(Len(TodosLosRegistros))

RECURSIVE TablaStrip(_)
TablaStrip(n) ==
  IF n = 0 THEN <<>> ELSE (Textos[n] :> Strip(Textos[n])) @@ TablaStrip(n - 1)

RECURSIVE TablaUpper(_)
TablaUpper(n) ==
  IF n = 0 THEN <<>> ELSE (Textos[n] :> Upper(Textos[n])) @@ TablaUpper(n - 1)

RECURSIVE TablaStrptime(_)
TablaStrptime(n) ==
  IF n = 0 THEN <<>>
  ELSE (<<TodosLosRegistros[n].fecha, TodosLosRegistros[n].hora>>
          :> Strptime(TodosLosRegistros[n].fecha, TodosLosRegistros[n].hora))
       @@ TablaStrptime(n - 1)

StripDe == TablaStrip(Len(Textos))
UpperDe == TablaUpper(Len(Textos))
StrptimeDe == TablaStrptime(Len(TodosLosRegistros))
TextosTabulados == DOMAIN StripDe
InstantesTabulados == DOMAIN StrptimeDe

Recortar(s) == IF s \in TextosTabulados THEN StripDe[s] ELSE Strip(s)
Mayusculizar(s) == IF s \in TextosTabulados THEN UpperDe[s] ELSE Upper(s)
Instante(fecha, hora) ==
  IF <<fecha, hora>> \in InstantesTabulados THEN StrptimeDe[<<fecha, hora>>]
  ELSE Strptime(fecha, hora)

-----------------------------------------------------------------------------
(* Records: the dictionaries handled by the engine.  A missing key and an  *)
(* empty value are both the empty string (d.get(campo) is falsy for both); *)
(* a missing "motivos" is the empty list.                                  *)

Campos == {"radicado", "tipo_audiencia", "fecha", "hora", "juzgado",
           "se_realizo", "motivos", "observaciones"}

obligatorios == <<"radicado", "tipo_audiencia", "fecha", "hora", "juzgado", "se_realizo">>

\* parse_fecha_hora(d): the parsed instant, FECHA_INVALIDA where it raises
parse_fecha_hora(d) ==
  IF ~Truthy(d.fecha) \/ ~Truthy(d.hora) THEN FECHA_INVALIDA
  ELSE Instante(d.fecha, d.hora)

\* Faulty variant of ValidaCampos, for the sensitivity of C15: the type is not
\* looked up in the list
ValidaSinTipo(d) ==
  /\ \A i \in 1..Len(obligatorios) : Truthy(d[obligatorios[i]])
  /\ Mayusculizar(Recortar(d.se_realizo)) \in {"SI", "NO"}

\* validar_campos_audiencia(d): whether it returns without raising
ValidaCampos(d) ==
  /\ \A i \in 1..Len(obligatorios) : Truthy(d[obligatorios[i]])
  /\ Recortar(d.tipo_audiencia) \in TIPOS_AUDIENCIA_VALIDOS
  /\ Mayusculizar(Recortar(d.se_realizo)) \in {"SI", "NO"}

\* validar_campos_audiencia(d): the dictionary as the call leaves it
validar_campos_audiencia(d) ==
  IF ValidaCampos(d)
  THEN [d EXCEPT !.se_realizo = Mayusculizar(Recortar(d.se_realizo)),
                 !.tipo_audiencia = Recortar(d.tipo_audiencia)]
  ELSE d

-----------------------------------------------------------------------------
(* Worksheets (openpyxl)                                                   *)

\* Op applied to the value of e: e is evaluated once, however often Op uses it
Con(e, Op(_)) == CHOOSE r \in {Op(v) : v \in {e}} : TRUE

Columnas == 1..17
FilaVacia == [c \in Columnas |-> ""]
HojaVacia == [r \in {} |-> FilaVacia]

Maximo(S) == CHOOSE x \in S : \A y \in S : y <= x

\* ws.cell(row, column).value
Celda(ws, r, c) == IF r \in DOMAIN ws THEN ws[r][c] ELSE ""

Fila(ws, r) == IF r \in DOMAIN ws THEN ws[r] ELSE FilaVacia

\* ws.cell(row, column, value)
Poner(ws, r, c, v) ==
  [x \in DOMAIN ws \cup {r} |-> IF x = r THEN [Fila(ws, r) EXCEPT ![c] = v] ELSE ws[x]]

PonerFila(ws, r, fila) ==
  [x \in DOMAIN ws \cup {r} |-> IF x = r THEN fila ELSE ws[x]]

\* ws.max_row of a loaded sheet; the header row always holds cells
MaxRow(ws) == Maximo(DOMAIN ws \cup {FILA_ENCABEZADO})

\* ws.delete_rows(idx, amount): the rows idx..idx+amount-1 go and the rows
\* below them move up by amount
DeleteRows(ws, idx, amount) ==
  LET arriba == {r \in DOMAIN ws : r < idx}
      abajo  == {r - amount : r \in {x \in DOMAIN ws : x >= idx + amount}}
  IN  [r \in arriba \cup abajo |-> IF r < idx THEN ws[r] ELSE ws[r + amount]]

\* wb.save(ruta): cells without a value hold nothing in the saved sheet
Save(ws) ==
  [r \in {x \in DOMAIN ws : \E c \in Columnas : ws[x][c] # ""} |-> ws[r]]

\* ws.merge_cells("A<r>:Q<r>"): every cell of the range but the first becomes a
\* MergedCell, which holds no value
MergeFila(ws, r) ==
  PonerFila(ws, r, [c \in Columnas |-> IF c = 1 THEN Celda(ws, r, 1) ELSE ""])

-----------------------------------------------------------------------------
(* guardar_audiencias_excel                                                *)

\* Faulty variant of BorrarDatosPrevios, for the sensitivity of C12: the rows
\* of the previous save are not deleted
NoBorrar(ws) == ws

\* max_row = min(ws.max_row, MAX_FILA_PERMITIDA - 1) and the delete_rows call
\* that clears the previous data region
BorrarDatosPrevios(ws) ==
  LET max_row == IF MaxRow(ws) < MAX_FILA_PERMITIDA - 1
                 THEN MaxRow(ws) ELSE MAX_FILA_PERMITIDA - 1
  IN  IF max_row > FILA_ENCABEZADO
      THEN DeleteRows(ws, FILA_ENCABEZADO + 1, max_row - FILA_ENCABEZADO)
      ELSE ws

\* Faulty variant of TodosValidos, for the sensitivity of C8: the date and the
\* time are not parsed
TodosConCampos(datos) == \A i \in 1..Len(datos) : ValidaCampos(datos[i])

\* the loop "for d in datos: validar_campos_audiencia(d); parse_fecha_hora(d)"
\* raises on the first record that fails
TodosValidos(datos) ==
  \A i \in 1..Len(datos) :
     ValidaCampos(datos[i]) /\ parse_fecha_hora(datos[i]) # FECHA_INVALIDA

Normalizados(datos) == [i \in 1..Len(datos) |-> validar_campos_audiencia(datos[i])]

RECURSIVE InsertarAntes(_, _)
\* Faulty variant of Insertar, for the sensitivity of C2: d goes before the
\* records of its own instant
InsertarAntes(s, d) ==
  IF s = <<>> THEN <<d>>
  ELSE IF parse_fecha_hora(Head(s)) > parse_fecha_hora(d)
       THEN <<Head(s)>> \o InsertarAntes(Tail(s), d)
       ELSE <<d>> \o s

RECURSIVE Insertar(_, _)
\* d goes after every record whose instant is later than or equal to its own
Insertar(s, d) ==
  IF s = <<>> THEN <<d>>
  ELSE IF parse_fecha_hora(Head(s)) >= parse_fecha_hora(d)
       THEN <<Head(s)>> \o Insertar(Tail(s), d)
       ELSE <<d>> \o s

RECURSIVE OrdenarHasta(_, _)
\* the first n records of datos in the order sorted() gives them
OrdenarHasta(datos, n) ==
  IF n = 0 THEN <<>>
  ELSE Con(OrdenarHasta(datos, n - 1), LAMBDA s : Insertar(s, datos[n]))

\* sorted(datos, key=parse_fecha_hora, reverse=True): descending and stable
Ordenar(datos) == Con(datos, LAMBDA v : OrdenarHasta(v, Len(v)))

\* Faulty variant of MotivoEn, for the sensitivity of C19: the reasons are
\* taken one place further on
MotivoCorrido(d, i) == IF i + 1 < Len(d.motivos) THEN d.motivos[i + 2] ELSE ""

\* the cell of column col - COL_MOTIVOS_INICIO of d's reasons, "" past their end
MotivoEn(d, i) == IF i < Len(d.motivos) THEN d.motivos[i + 1] ELSE ""

\* Faulty variant of FilaDeRegistro, for the sensitivity of C1: the notes are
\* not written
FilaSinObservaciones(idx, d) ==
  [c \in Columnas |->
     IF c = COL_NRO THEN ToString(idx)
     ELSE IF c = COL_RADICADO THEN d.radicado
     ELSE IF c = COL_TIPO THEN d.tipo_audiencia
     ELSE IF c = COL_FECHA THEN d.fecha
     ELSE IF c = COL_HORA THEN d.hora
     ELSE IF c = COL_JUZGADO THEN d.juzgado
     ELSE IF c = COL_REALIZADO_SI THEN (IF d.se_realizo = "SI" THEN "X" ELSE "")
     ELSE IF c = COL_REALIZADO_NO
          THEN (IF d.se_realizo = "NO" THEN "X" ELSE "")
     ELSE IF c = COL_OBSERVACIONES THEN ""
     ELSE MotivoEn(d, c - COL_MOTIVOS_INICIO)]

\* Faulty variant of FilaDeRegistro, for the sensitivity of C18: the mark of
\* an answer NO is not written
FilaSinMarcaNo(idx, d) ==
  [c \in Columnas |->
     IF c = COL_NRO THEN ToString(idx)
     ELSE IF c = COL_RADICADO THEN d.radicado
     ELSE IF c = COL_TIPO THEN d.tipo_audiencia
     ELSE IF c = COL_FECHA THEN d.fecha
     ELSE IF c = COL_HORA THEN d.hora
     ELSE IF c = COL_JUZGADO THEN d.juzgado
     ELSE IF c = COL_REALIZADO_SI THEN (IF d.se_realizo = "SI" THEN "X" ELSE "")
     ELSE IF c = COL_REALIZADO_NO THEN ""
     ELSE IF c = COL_OBSERVACIONES THEN d.observaciones
     ELSE MotivoEn(d, c - COL_MOTIVOS_INICIO)]

\* the values written to row number idx for record d
FilaDeRegistro(idx, d) ==
  [c \in Columnas |->
     IF c = COL_NRO THEN ToString(idx)
     ELSE IF c = COL_RADICADO THEN d.radicado
     ELSE IF c = COL_TIPO THEN d.tipo_audiencia
     ELSE IF c = COL_FECHA THEN d.fecha
     ELSE IF c = COL_HORA THEN d.hora
     ELSE IF c = COL_JUZGADO THEN d.juzgado
     ELSE IF c = COL_REALIZADO_SI THEN (IF d.se_realizo = "SI" THEN "X" ELSE "")
     ELSE IF c = COL_REALIZADO_NO
          THEN (IF d.se_realizo = "NO" THEN "X" ELSE "")
     ELSE IF c = COL_OBSERVACIONES THEN d.observaciones
     ELSE MotivoEn(d, c - COL_MOTIVOS_INICIO)]

RECURSIVE EscribirDatos(_, _, _)
\* the loop over enumerate(datos_ordenados, start=1), from index idx on
EscribirDatos(ws, ordenados, idx) ==
  IF idx > Len(ordenados) THEN ws
  ELSE Con(PonerFila(ws, FILA_ENCABEZADO + idx, FilaDeRegistro(idx, ordenados[idx])),
           LAMBDA w : EscribirDatos(w, ordenados, idx + 1))

RECURSIVE TotalesPrevios(_, _)
\* filas_a_borrar: the rows from fila on whose column G or H starts with
\* "TOTAL DE", up to the first row that has neither value or another text
TotalesPrevios(ws, fila) ==
  IF Truthy(Celda(ws, fila, 7)) \/ Truthy(Celda(ws, fila, 8))
  THEN IF StartsWith(Celda(ws, fila, 7), "TOTAL DE")
          \/ StartsWith(Celda(ws, fila, 8), "TOTAL DE")
       THEN <<fila>> \o TotalesPrevios(ws, fila + 1)
       ELSE <<>>
  ELSE <<>>

RECURSIVE BorrarFilasDesde(_, _, _)
\* the loop below from the i-th row of filas down to the first
BorrarFilasDesde(ws, filas, i) ==
  IF i = 0 THEN ws
  ELSE Con(DeleteRows(ws, filas[i], 1), LAMBDA w : BorrarFilasDesde(w, filas, i - 1))

\* for f in reversed(filas_a_borrar): ws.delete_rows(f, 1)
BorrarFilas(ws, filas) == Con(filas, LAMBDA f : BorrarFilasDesde(ws, f, Len(f)))

Contar(datos, valor) == Cardinality({i \in 1..Len(datos) : datos[i].se_realizo = valor})

motivos_nombres ==
  <<"Juez", "Fiscalia", "Usuario", "Inpec", "Victima", "ICBF",
    "Defensor Confianza", "Defensor Publico">>

\* Faulty variant of ConteoMotivo, for the sensitivity of C4: the rows of held
\* hearings count too
ConteoMotivoTodas(ws, fila_totales, col) ==
  Cardinality({f \in (FILA_ENCABEZADO + 1)..(fila_totales - 1) :
                 Truthy(Celda(ws, f, col))})

\* conteo_motivos[col]: the rows of the data region with "X" in column H and a
\* value in column col
ConteoMotivo(ws, fila_totales, col) ==
  Cardinality({f \in (FILA_ENCABEZADO + 1)..(fila_totales - 1) :
                 Celda(ws, f, COL_REALIZADO_NO) = "X" /\ Truthy(Celda(ws, f, col))})

TextoTotalSi(n) == "TOTAL DE AUDIENCIAS REALIZADAS: " \o ToString(n)
TextoTotalNo(n) == "TOTAL DE AUDIENCIAS NO REALIZADAS: " \o ToString(n)
TextoMotivo(col, n) == motivos_nombres[col - COL_MOTIVOS_INICIO + 1] \o ": " \o ToString(n)

EscribirTotales(ws, fila_totales, total_si, total_no) ==
  Poner(Poner(ws, fila_totales, COL_REALIZADO_SI, TextoTotalSi(total_si)),
        fila_totales, COL_REALIZADO_NO, TextoTotalNo(total_no))

EscribirTotalesMotivos(ws, fila_totales) ==
  PonerFila(ws, fila_totales + 1,
    [c \in Columnas |->
       IF c \in COL_MOTIVOS_INICIO..COL_MOTIVOS_FIN
       THEN TextoMotivo(c, ConteoMotivo(ws, fila_totales, c))
       ELSE Celda(ws, fila_totales + 1, c)])

-----------------------------------------------------------------------------
(* Paths and files.  fs maps the normalised path of every workbook that    *)
(* exists to its sheet.                                                    *)

\* os.path.join(a, b)
Join(a, b) == IF StartsWith(b, "/") THEN b ELSE a \o "/" \o b

RECURSIVE Normalizar(_, _)
\* os.path.normpath on the components of a relative path: pila holds the
\* components kept so far
Normalizar(pila, resto) ==
  IF resto = <<>> THEN pila
  ELSE LET c == Head(resto) IN
       IF c = "" \/ c = "." THEN Normalizar(pila, Tail(resto))
       ELSE IF c = ".." /\ pila # <<>> /\ pila[Len(pila)] # ".."
            THEN Normalizar(SubSeq(pila, 1, Len(pila) - 1), Tail(resto))
            ELSE Normalizar(Append(pila, c), Tail(resto))

RECURSIVE Unir(_)
Unir(comps) ==
  IF comps = <<>> THEN ""
  ELSE IF Len(comps) = 1 THEN comps[1]
  ELSE comps[1] \o "/" \o Unir(Tail(comps))

\* os.path.abspath(p), relative to the working directory
AbsPath(p) == Unir(Normalizar(<<>>, Split(p, "/")))

\* os.path.exists(ruta)
Exists(fs, ruta) == AbsPath(ruta) \in DOMAIN fs

\* load_workbook(ruta) raises InvalidFileException unless the name ends with
\* an extension openpyxl supports
ExtensionOk(ruta) ==
  \E e \in {".xlsx", ".xlsm", ".xltx", ".xltm"} : EndsWith(ruta, e)

Escribir(fs, ruta, ws) ==
  [p \in DOMAIN fs \cup {AbsPath(ruta)} |-> IF p = AbsPath(ruta) THEN ws ELSE fs[p]]

\* validar_no_es_plantilla(nombre_archivo): whether it raises
EsPlantilla(nombre_archivo) ==
  AbsPath(Join(ARCHIVOS_DIR, nombre_archivo)) = AbsPath(PLANTILLA_PATH)

Resultado(res, fs, n) == [res |-> res, fs |-> fs, n |-> n]

\* Faulty variant of SinEspacioMotivos, for the sensitivity of C5: the
\* per-reason row may take the ceiling row
SinEspacioMotivosLaxo(fila_totales_motivos) == fila_totales_motivos > MAX_FILA_PERMITIDA

\* Faulty variant of SinEspacioTotales, for the sensitivity of C21: the totals
\* row may not take the ceiling row
SinEspacioTotalesEstricto(fila_totales) == fila_totales >= MAX_FILA_PERMITIDA

\* "if fila_totales > MAX_FILA_PERMITIDA"
SinEspacioTotales(fila_totales) == fila_totales > MAX_FILA_PERMITIDA

\* "if fila_totales_motivos >= MAX_FILA_PERMITIDA"
SinEspacioMotivos(fila_totales_motivos) == fila_totales_motivos >= MAX_FILA_PERMITIDA

\* guardar_audiencias_excel(datos, nombre_archivo): the outcome and the files
\* after the call
guardar_audiencias_excel(fs, datos, nombre_archivo) ==
  LET ruta == Join(ARCHIVOS_DIR, nombre_archivo) IN
  IF EsPlantilla(nombre_archivo) THEN Resultado("plantilla", fs, 0)
  ELSE IF ~Exists(fs, ruta) THEN Resultado("no_existe", fs, 0)
  ELSE IF ~ExtensionOk(ruta) THEN Resultado("formato", fs, 0)
  ELSE
    IF ~TodosValidos(datos) THEN Resultado("validacion", fs, 0)
    ELSE
      Con(Ordenar(Normalizados(datos)), LAMBDA datos_ordenados :
      Con(EscribirDatos(BorrarDatosPrevios(fs[AbsPath(ruta)]), datos_ordenados, 1),
          LAMBDA ws2 :
      Con(BorrarFilas(ws2, TotalesPrevios(ws2, FILA_ENCABEZADO + Len(datos_ordenados) + 1)),
          LAMBDA ws3 :
        LET total_si == Contar(datos_ordenados, "SI")
            total_no == Contar(datos_ordenados, "NO")
            fila_totales == FILA_ENCABEZADO + Len(datos_ordenados) + 1
            fila_totales_motivos == fila_totales + 1
        IN
        IF SinEspacioTotales(fila_totales) THEN Resultado("capacidad", fs, 0)
        ELSE IF SinEspacioMotivos(fila_totales_motivos)
             THEN Resultado("sin_espacio_motivos", fs, 0)
             ELSE Con(EscribirTotales(ws3, fila_totales, total_si, total_no),
                      LAMBDA ws4 :
                        Resultado("ok",
                                  Escribir(fs, ruta,
                                           Save(EscribirTotalesMotivos(ws4, fila_totales))),
                                  0)))))

\* the record read back from row fila
RegistroDeFila(ws, fila) ==
  LET valor_si == Celda(ws, fila, COL_REALIZADO_SI)
      valor_no == Celda(ws, fila, COL_REALIZADO_NO)
  IN  [radicado |-> Celda(ws, fila, COL_RADICADO),
       tipo_audiencia |-> Celda(ws, fila, COL_TIPO),
       fecha |-> Celda(ws, fila, COL_FECHA),
       hora |-> Celda(ws, fila, COL_HORA),
       juzgado |-> Celda(ws, fila, COL_JUZGADO),
       se_realizo |-> IF Truthy(valor_si) /\ Recortar(valor_si) = "X" THEN "SI"
                      ELSE IF Truthy(valor_no) /\ Recortar(valor_no) = "X" THEN "NO"
                      ELSE "",
       observaciones |-> Celda(ws, fila, COL_OBSERVACIONES),
       motivos |-> [i \in 1..(COL_MOTIVOS_FIN - COL_MOTIVOS_INICIO + 1) |->
                      Celda(ws, fila, COL_MOTIVOS_INICIO + i - 1)]]

RECURSIVE LeerDesde(_, _)
\* the loop "while ws.cell(row=fila, column=COL_RADICADO).value"
LeerDesde(ws, fila) ==
  IF Truthy(Celda(ws, fila, COL_RADICADO))
  THEN <<RegistroDeFila(ws, fila)>> \o LeerDesde(ws, fila + 1)
  ELSE <<>>

\* audiencias_existentes
LeerAudiencias(ws) == LeerDesde(ws, FILA_ENCABEZADO + 1)

\* Faulty variant of EsDuplicado, for the sensitivity of C3: the case ids are
\* compared as written
EsDuplicadoExacto(existentes, d) ==
  \E i \in 1..Len(existentes) : existentes[i].radicado = d.radicado

\* the duplicate check of guardar_una_audiencia_excel
EsDuplicado(existentes, d) ==
  \E i \in 1..Len(existentes) : Recortar(existentes[i].radicado) = Recortar(d.radicado)

\* audiencias_existentes as the loop of guardar_una_audiencia_excel leaves it;
\* nothing when the workbook cannot be loaded
audiencias_existentes(fs, nombre_archivo) ==
  LET ruta == Join(ARCHIVOS_DIR, nombre_archivo) IN
  IF Exists(fs, ruta) /\ ExtensionOk(ruta) THEN LeerAudiencias(fs[AbsPath(ruta)]) ELSE <<>>

\* Faulty variant of guardar_una_audiencia_excel, for the sensitivity of C17:
\* the records of the workbook are not read, and d alone is saved
guardar_una_sin_leer(fs, d, nombre_archivo) ==
  LET ruta == Join(ARCHIVOS_DIR, nombre_archivo) IN
  IF ~Exists(fs, ruta) THEN Resultado("no_existe", fs, 0)
  ELSE IF ~ExtensionOk(ruta) THEN Resultado("formato", fs, 0)
  ELSE Con(guardar_audiencias_excel(fs, <<d>>, nombre_archivo), LAMBDA r :
         IF r.res = "ok" THEN Resultado("ok", r.fs, 1) ELSE r)

\* guardar_una_audiencia_excel(d, nombre_archivo)
guardar_una_audiencia_excel(fs, d, nombre_archivo) ==
  LET ruta == Join(ARCHIVOS_DIR, nombre_archivo) IN
  IF ~Exists(fs, ruta) THEN Resultado("no_existe", fs, 0)
  ELSE IF ~ExtensionOk(ruta) THEN Resultado("formato", fs, 0)
  ELSE
    Con(audiencias_existentes(fs, nombre_archivo), LAMBDA existentes :
      IF EsDuplicado(existentes, d) THEN Resultado("duplicado", fs, 0)
      ELSE Con(Append(existentes, d), LAMBDA todas :
           Con(guardar_audiencias_excel(fs, todas, nombre_archivo), LAMBDA r :
             IF r.res = "ok" THEN Resultado("ok", r.fs, Len(todas)) ELSE r)))

\* Faulty variant of crear_copia_plantilla, for the sensitivity of C14: the
\* destination is not looked for before the copy
crear_sin_comprobar(fs, nombre_archivo) ==
  IF ~Exists(fs, PLANTILLA_PATH) THEN Resultado("no_existe", fs, 0)
  ELSE Resultado("ok",
                 Escribir(fs,
                          Join(ARCHIVOS_DIR,
                               IF EndsWith(nombre_archivo, ".xlsx") THEN nombre_archivo
                               ELSE nombre_archivo \o ".xlsx"),
                          fs[AbsPath(PLANTILLA_PATH)]),
                 0)

\* crear_copia_plantilla(nombre_archivo)
crear_copia_plantilla(fs, nombre_archivo) ==
  IF ~Exists(fs, PLANTILLA_PATH) THEN Resultado("no_existe", fs, 0)
  ELSE
    LET nombre == IF EndsWith(nombre_archivo, ".xlsx") THEN nombre_archivo
                  ELSE nombre_archivo \o ".xlsx"
        destino == Join(ARCHIVOS_DIR, nombre)
    IN  IF Exists(fs, destino) THEN Resultado("ya_existe", fs, 0)
        ELSE Resultado("ok", Escribir(fs, destino, fs[AbsPath(PLANTILLA_PATH)]), 0)

\* main.crear_archivo(nombre)
crear_archivo(fs, nombre) ==
  crear_copia_plantilla(fs, IF EndsWith(nombre, ".xlsx") THEN nombre ELSE nombre \o ".xlsx")

-----------------------------------------------------------------------------
(* exportar_con_firma                                                      *)

\* date.today().strftime("%Y%m%d")
HOY == "20240725"

\* Path(nombre_archivo).stem
Stem(nombre_archivo) ==
  LET comps == Split(nombre_archivo, "/")
      nombre == comps[Len(comps)]
      puntos == {i \in 2..Len(nombre) : Char(nombre, i) = "."}
  IN  IF puntos = {} THEN nombre ELSE SubSeq(nombre, 1, Maximo(puntos) - 1)

NombreConExtension(nombre_archivo) ==
  IF EndsWith(nombre_archivo, ".xlsx") THEN nombre_archivo ELSE nombre_archivo \o ".xlsx"

\* Faulty variant of RutaExportada, for the sensitivity of C13: the signed
\* sheet is saved over the template
RutaPlantilla(nombre_archivo) == PLANTILLA_PATH

\* Faulty variant of RutaExportada, for the sensitivity of C7: the signed sheet
\* is saved over the source
RutaOrigen(nombre_archivo) == Join(ARCHIVOS_DIR, NombreConExtension(nombre_archivo))

\* ruta_destino
RutaExportada(nombre_archivo) ==
  Join(ARCHIVOS_DIR, Stem(NombreConExtension(nombre_archivo)) \o "_exportado_" \o HOY \o ".xlsx")

RECURSIVE SaltarDatos(_, _)
\* while ws.cell(row=ultima_fila + 1, column=COL_RADICADO).value
SaltarDatos(ws, ultima_fila) ==
  IF Truthy(Celda(ws, ultima_fila + 1, COL_RADICADO))
  THEN SaltarDatos(ws, ultima_fila + 1) ELSE ultima_fila

RECURSIVE SaltarTotales(_, _)
\* while column G or H of row ultima_fila + 1 holds a value
SaltarTotales(ws, ultima_fila) ==
  IF Truthy(Celda(ws, ultima_fila + 1, COL_REALIZADO_SI))
     \/ Truthy(Celda(ws, ultima_fila + 1, COL_REALIZADO_NO))
  THEN SaltarTotales(ws, ultima_fila + 1) ELSE ultima_fila

\* fila_firma
FilaFirma(ws) == SaltarTotales(ws, SaltarDatos(ws, FILA_ENCABEZADO)) + 1

\* the sheet of the copy with the signature written and its row merged
ConFirma(ws) == MergeFila(Poner(ws, FilaFirma(ws), 1, FIRMA_TEXTO), FilaFirma(ws))

\* exportar_con_firma(nombre_archivo)
exportar_con_firma(fs, nombre_archivo) ==
  LET ruta_origen == Join(ARCHIVOS_DIR, NombreConExtension(nombre_archivo)) IN
  IF ~Exists(fs, ruta_origen) THEN Resultado("no_existe", fs, 0)
  ELSE Resultado("ok",
                 Escribir(fs, RutaExportada(nombre_archivo),
                          Save(ConFirma(fs[AbsPath(ruta_origen)]))),
                 0)

-----------------------------------------------------------------------------
(* Names and templates given to the operations                             *)

NombresLibro == {"a.xlsx"}
NombresCrear == {"a"}

\* With exports: fewer records, and the exported copy is a workbook of the
\* directory like any other
NombresExportar == {"a", "b"}
NombresConExportado == {"a.xlsx", Stem("a.xlsx") \o "_exportado_" \o HOY \o ".xlsx"}
EntradasConExportado == {<<>>, <<V1>>, <<V1, V3>>, Lote(3)}
RegistrosConExportado == {V1, V4}

\* The template: nothing below the header, or the defender's signature line
\* on the first row that the engine must leave alone.
PlantillaEnBlanco == HojaVacia
PlantillaConFirma == Poner(HojaVacia, MAX_FILA_PERMITIDA, 1, FIRMA_TEXTO)
Plantillas == {PlantillaEnBlanco, PlantillaConFirma}

-----------------------------------------------------------------------------
(* The state machine: one action per operation of the engine               *)

VARIABLES fs, last, hilos
vars == <<fs, last, hilos>>

\* The requests in progress: FastAPI runs each "def" handler of main.py on a
\* thread of its pool, so that calls of guardar_una_audiencia_excel overlap.
\* hilos[h] is what thread h holds in memory: where it is in the call (pc), the
\* record it was given (d, a list of one record or none), the records it read
\* (existentes), the workbook it has prepared (wb), and how its call ended
\* (res, n).
Hilos == 1..NumHilos
HiloListo ==
  [pc |-> "listo", d |-> <<>>, existentes |-> <<>>, wb |-> HojaVacia, res |-> "", n |-> 0]
SinHilos == [h \in {} |-> HiloListo]

\* The latest call: the function, its arguments, the records it read from the
\* workbook before anything else (guardar_una_audiencia_excel only), how it
\* ended and the count it returned.
Llamada(op, nombre, datos, previos, r) ==
  [op |-> op, nombre |-> nombre, datos |-> datos, previos |-> previos,
   res |-> r.res, n |-> r.n]

Init ==
  /\ \E p \in Plantillas : fs = [x \in {AbsPath(PLANTILLA_PATH)} |-> p]
  /\ last = [op |-> "init", nombre |-> "", datos |-> <<>>, previos |-> <<>>,
             res |-> "", n |-> 0]
  /\ hilos = SinHilos

CrearArchivo(nombre) ==
  LET r == crear_archivo(fs, nombre) IN
  /\ fs' = r.fs
  /\ last' = Llamada("crear_archivo", nombre, <<>>, <<>>, r)
  /\ UNCHANGED hilos

GuardarAudiencias(datos, nombre) ==
  LET r == guardar_audiencias_excel(fs, datos, nombre) IN
  /\ fs' = r.fs
  /\ last' = Llamada("guardar_audiencias_excel", nombre, datos, <<>>, r)
  /\ UNCHANGED hilos

GuardarUnaAudiencia(d, nombre) ==
  LET r == guardar_una_audiencia_excel(fs, d, nombre) IN
  /\ fs' = r.fs
  /\ last' = Llamada("guardar_una_audiencia_excel", nombre, <<d>>,
                     audiencias_existentes(fs, nombre), r)
  /\ UNCHANGED hilos

Exportar(nombre) ==
  LET r == exportar_con_firma(fs, nombre) IN
  /\ fs' = r.fs
  /\ last' = Llamada("exportar_con_firma", nombre, <<>>, <<>>, r)
  /\ UNCHANGED hilos

Next ==
  \/ \E nombre \in NombresCrear : CrearArchivo(nombre)
  \/ \E datos \in Entradas, nombre \in NombresLibro : GuardarAudiencias(datos, nombre)
  \/ \E d \in Registros, nombre \in NombresLibro : GuardarUnaAudiencia(d, nombre)

Spec == Init /\ [][Next]_vars

NextExport ==
  \/ \E nombre \in NombresCrear : CrearArchivo(nombre)
  \/ \E datos \in EntradasConExportado, nombre \in NombresConExportado :
        GuardarAudiencias(datos, nombre)
  \/ \E d \in RegistrosConExportado, nombre \in NombresConExportado :
        GuardarUnaAudiencia(d, nombre)
  \/ \E nombre \in NombresExportar : Exportar(nombre)

SpecExport == Init /\ [][NextExport]_vars

\* With names that lead out of the directory of the workbooks, to the template
\* among other places, and with or without the template on disk
NOMBRE_DE_PLANTILLA == "../Plantillas/plantilla_base"
NombresConPlantilla == {"a.xlsx", NOMBRE_DE_PLANTILLA, "x/../.././Plantillas/plantilla_base"}
NombresCrearConPlantilla == {"a", "a.xlsx", NOMBRE_DE_PLANTILLA}
NombresExportarConPlantilla == {"a", NOMBRE_DE_PLANTILLA}
EntradasConPlantilla == {<<>>, <<V1>>, <<V3, V1>>}
RegistrosConPlantilla == {V1, V3}

InitPlantilla ==
  /\ \/ \E p \in Plantillas : fs = [x \in {AbsPath(PLANTILLA_PATH)} |-> p]
     \/ fs = [x \in {} |-> HojaVacia]
  /\ last = [op |-> "init", nombre |-> "", datos |-> <<>>, previos |-> <<>>,
             res |-> "", n |-> 0]
  /\ hilos = SinHilos

NextPlantilla ==
  \/ \E nombre \in NombresCrearConPlantilla : CrearArchivo(nombre)
  \/ \E datos \in EntradasConPlantilla, nombre \in NombresConPlantilla :
        GuardarAudiencias(datos, nombre)
  \/ \E d \in RegistrosConPlantilla, nombre \in NombresConPlantilla :
        GuardarUnaAudiencia(d, nombre)
  \/ \E nombre \in NombresExportarConPlantilla : Exportar(nombre)

SpecPlantilla == InitPlantilla /\ [][NextPlantilla]_vars

\* Overlapping calls of guardar_una_audiencia_excel on one workbook. A call
\* reads the workbook (lines 333-377), reads it again inside
\* guardar_audiencias_excel and prepares the new sheet in memory (lines
\* 157-319), and saves it (line 321); each of the three is one step, and the
\* steps of different threads interleave.
LIBRO == "a.xlsx"
RegistrosConcurrentes == {V1, V2, V3}
\* the workbook at the start: new from the blank template, or made from the
\* signed template and holding V4
LibrosIniciales == {<<PlantillaEnBlanco, <<>>>>, <<PlantillaConFirma, <<V4>>>>}

InitConcurrente ==
  /\ \E inicial \in LibrosIniciales :
        fs = guardar_audiencias_excel(
               crear_archivo([x \in {AbsPath(PLANTILLA_PATH)} |-> inicial[1]], "a").fs,
               inicial[2], LIBRO).fs
  /\ last = [op |-> "init", nombre |-> "", datos |-> <<>>, previos |-> <<>>,
             res |-> "", n |-> 0]
  /\ hilos = [h \in Hilos |-> HiloListo]

\* what the thread holds when its call has ended
Terminado(hilo, res, n) == [hilo EXCEPT !.pc = "fin", !.res = res, !.n = n]

\* Faulty variant of Abierto, for the sensitivity of C20: the case id of d is
\* not looked for among the records read
AbiertoSinComparar(f, d) ==
  LET ruta == Join(ARCHIVOS_DIR, LIBRO)
      hilo == [HiloListo EXCEPT !.d = <<d>>]
  IN  IF ~Exists(f, ruta) THEN Terminado(hilo, "no_existe", 0)
      ELSE IF ~ExtensionOk(ruta) THEN Terminado(hilo, "formato", 0)
      ELSE [hilo EXCEPT !.pc = "leido", !.existentes = audiencias_existentes(f, LIBRO)]

\* lines 333-377: the workbook is loaded, its records are read and the case id
\* of d is looked for among them
Abierto(f, d) ==
  LET ruta == Join(ARCHIVOS_DIR, LIBRO)
      hilo == [HiloListo EXCEPT !.d = <<d>>]
  IN  IF ~Exists(f, ruta) THEN Terminado(hilo, "no_existe", 0)
      ELSE IF ~ExtensionOk(ruta) THEN Terminado(hilo, "formato", 0)
      ELSE Con(audiencias_existentes(f, LIBRO), LAMBDA existentes :
             IF EsDuplicado(existentes, d)
             THEN Terminado([hilo EXCEPT !.existentes = existentes], "duplicado", 0)
             ELSE [hilo EXCEPT !.pc = "leido", !.existentes = existentes])

Abrir(h, d) ==
  /\ hilos[h].pc = "listo"
  /\ hilos' = [hilos EXCEPT ![h] = Abierto(fs, d)]
  /\ UNCHANGED <<fs, last>>

\* Faulty variant of Cargado, for the sensitivity of C16: the records are read
\* again from the workbook as it is now, and d is added to those
CargadoReleyendo(f, hilo) ==
  Con(guardar_audiencias_excel(f, audiencias_existentes(f, LIBRO) \o hilo.d, LIBRO), LAMBDA r :
      IF r.res = "ok"
      THEN [hilo EXCEPT !.pc = "cargado", !.wb = r.fs[AbsPath(Join(ARCHIVOS_DIR, LIBRO))]]
      ELSE Terminado(hilo, r.res, 0))

\* lines 380-382 and 157-319: guardar_audiencias_excel is given the records
\* read and d, loads the workbook as it is now and prepares the new sheet
Cargado(f, hilo) ==
  Con(guardar_audiencias_excel(f, hilo.existentes \o hilo.d, LIBRO), LAMBDA r :
      IF r.res = "ok"
      THEN [hilo EXCEPT !.pc = "cargado", !.wb = r.fs[AbsPath(Join(ARCHIVOS_DIR, LIBRO))]]
      ELSE Terminado(hilo, r.res, 0))

Cargar(h) ==
  /\ hilos[h].pc = "leido"
  /\ hilos' = [hilos EXCEPT ![h] = Cargado(fs, hilos[h])]
  /\ UNCHANGED <<fs, last>>

\* lines 321-323 and 384-387: wb.save(ruta), and the count is returned
Salvar(h) ==
  /\ hilos[h].pc = "cargado"
  /\ fs' = Escribir(fs, Join(ARCHIVOS_DIR, LIBRO), hilos[h].wb)
  /\ hilos' = [hilos EXCEPT ![h] = Terminado(hilos[h], "ok", Len(hilos[h].existentes) + 1)]
  /\ last' = Llamada("guardar_una_audiencia_excel", LIBRO, hilos[h].d, hilos[h].existentes,
                     [res |-> "ok", n |-> Len(hilos[h].existentes) + 1])

\* the thread takes the next request
Volver(h) ==
  /\ hilos[h].pc = "fin"
  /\ hilos' = [hilos EXCEPT ![h] = HiloListo]
  /\ UNCHANGED <<fs, last>>

NextConcurrente ==
  \/ \E h \in Hilos, d \in RegistrosConcurrentes : Abrir(h, d)
  \/ \E h \in Hilos : Cargar(h)
  \/ \E h \in Hilos : Salvar(h)
  \/ \E h \in Hilos : Volver(h)

SpecConcurrente == InitConcurrente /\ [][NextConcurrente]_vars

\* validar_campos_audiencia on its own: a dictionary is drawn and the call is
\* applied to it; last holds the dictionary given, the dictionary as the call
\* leaves it and how the call ended.
RegistrosAValidar ==
  { Reg(radicado, tipo, fecha, hora, juzgado, se_realizo, <<"Juez">>, "nota") :
      radicado \in {"R1", "", " "},
      tipo \in {"Otra", " Otra ", "Audiencia preliminar  ", "otra", "Baile", " ", ""},
      fecha \in {"01/07/2024", ""},
      hora \in {"10:00", ""},
      juzgado \in {"J1", ""},
      se_realizo \in {"si", "SI", "No", "nO", " si ", "NO ", "tal vez", "S", " ", ""} }

VALIDAR == "validar_campos_audiencia"

InitValidar ==
  /\ fs = [x \in {} |-> HojaVacia]
  /\ \E d \in RegistrosAValidar : last = [op |-> "dict", d |-> d, sale |-> d, res |-> ""]
  /\ hilos = SinHilos

ValidarCampos ==
  /\ last.op = "dict"
  /\ last' = [op |-> VALIDAR, d |-> last.d, sale |-> validar_campos_audiencia(last.d),
              res |-> IF ValidaCampos(last.d) THEN "ok" ELSE "validacion"]
  /\ UNCHANGED <<fs, hilos>>

SpecValidar == InitValidar /\ [][ValidarCampos]_vars

-----------------------------------------------------------------------------
(* Properties.  last holds the latest call and its outcome; fs is the       *)
(* directory after it.                                                      *)

GUARDAR == "guardar_audiencias_excel"
GUARDAR_UNA == "guardar_una_audiencia_excel"
EXPORTAR == "exportar_con_firma"

\* the sheet of the workbook called nombre in the directory f
LibroDe(f, nombre) == f[AbsPath(Join(ARCHIVOS_DIR, nombre))]
ExisteLibro(f, nombre) == AbsPath(Join(ARCHIVOS_DIR, nombre)) \in DOMAIN f

\* the records of a list, as a set
Elementos(s) == {s[i] : i \in 1..Len(s)}

\* A record in the form the ledger keeps: the answer in capitals without
\* blanks around it, the type without blanks around it, and a reason in each
\* of the eight positions at least, empty where none was given.
Canonico(d) ==
  [d EXCEPT !.se_realizo = Mayusculizar(Recortar(d.se_realizo)),
            !.tipo_audiencia = Recortar(d.tipo_audiencia),
            !.motivos = [i \in 1..(IF Len(d.motivos) > 8 THEN Len(d.motivos) ELSE 8) |->
                           IF i <= Len(d.motivos) THEN d.motivos[i] ELSE ""]]

\* C1: when guardar_audiencias_excel succeeds on a list of records that name
\* at most eight reasons each, the records read back from the data region (the
\* rows from the first one below the header while column B holds a value) are,
\* as a set, the records of the list in the form the ledger keeps: each case
\* id comes back with its type, date, time, court, answer, reasons and notes.
C1_LecturaDevuelveLoGuardado ==
  (/\ last.op = GUARDAR
   /\ last.res = "ok"
   /\ \A i \in 1..Len(last.datos) : Len(last.datos[i].motivos) <= 8)
  => Elementos(LeerAudiencias(LibroDe(fs, last.nombre)))
       = {Canonico(d) : d \in Elementos(last.datos)}

\* A list given out of order, with a tie, was saved and three records with
\* their notes and reasons come back.
C1_Testigo ==
  /\ last.op = GUARDAR
  /\ last.res = "ok"
  /\ last.datos = <<V1, V3, V4>>
  /\ Len(LeerAudiencias(LibroDe(fs, last.nombre))) = 3
  /\ LeerAudiencias(LibroDe(fs, last.nombre))[3] = Canonico(V1)

\* what tells one record from another whatever form it is in
Clave(d) == <<d.radicado, d.fecha, d.hora, d.juzgado, d.observaciones>>

\* the keys of the records of s whose instant is t, in the order of s
DeInstante(s, t) ==
  LET sel == SelectSeq(s, LAMBDA d : parse_fecha_hora(d) = t)
  IN  [i \in 1..Len(sel) |-> Clave(sel[i])]

NoCreciente(s) ==
  \A i, j \in 1..Len(s) : i < j => parse_fecha_hora(s[i]) >= parse_fecha_hora(s[j])

\* C2: after every successful guardar_audiencias_excel, and so after every
\* successful guardar_una_audiencia_excel (whose list is the records read from
\* the file followed by the new one), the data rows are in non-increasing
\* order of their parsed date and time, and the records of one same instant
\* are in the order they had in the list.
C2_OrdenDescendenteEstable ==
  (last.op \in {GUARDAR, GUARDAR_UNA} /\ last.res = "ok")
  => LET entrada == last.previos \o last.datos
         leidos == LeerAudiencias(LibroDe(fs, last.nombre))
     IN  /\ NoCreciente(leidos)
         /\ Len(leidos) = Len(entrada)
         /\ \A t \in {parse_fecha_hora(d) : d \in Elementos(entrada)} :
               DeInstante(leidos, t) = DeInstante(entrada, t)

\* V4 and V3 have one same instant, later than V1's: V4 stays before V3 and
\* V1 goes last.
C2_Testigo ==
  /\ last.op = GUARDAR
  /\ last.res = "ok"
  /\ last.datos = <<V4, V1, V3>>
  /\ LET leidos == LeerAudiencias(LibroDe(fs, last.nombre))
     IN  <<leidos[1].radicado, leidos[2].radicado, leidos[3].radicado>>
           = <<V4.radicado, V3.radicado, V1.radicado>>

\* C3: guardar_una_audiencia_excel with a record whose case id, without the
\* blanks around it, is that of a record of the file's data region fails as a
\* duplicate, and the directory is what it was before the call.
C3_DuplicadoRechazado ==
  [][ (/\ last'.op = GUARDAR_UNA
       /\ \E a \in Elementos(last'.previos) :
             Recortar(a.radicado) = Recortar(last'.datos[1].radicado))
      => (last'.res = "duplicado" /\ fs' = fs) ]_vars

\* the file holds R1 and the record with " R1 " was refused
C3_Testigo ==
  /\ last.op = GUARDAR_UNA
  /\ last.res = "duplicado"
  /\ last.datos = <<V2>>
  /\ \E a \in Elementos(LeerAudiencias(LibroDe(fs, last.nombre))) : a.radicado = "R1"

\* how many records of the list s satisfy P
Cuantos(s, P(_)) == Cardinality({i \in 1..Len(s) : P(s[i])})

\* C4: after guardar_audiencias_excel succeeds on N records, the row below the
\* last data row reads the number of records answered SI in column G and the
\* number answered NO in column H, and the row after it reads, for each of the
\* eight reason columns, the number of records answered NO that name a reason
\* at that position; the records answered SI count for no reason.
C4_TotalesCorrectos ==
  (last.op = GUARDAR /\ last.res = "ok")
  => LET ws == LibroDe(fs, last.nombre)
         fila_totales == FILA_ENCABEZADO + Len(last.datos) + 1
         total_si == Cuantos(last.datos, LAMBDA d : Canonico(d).se_realizo = "SI")
         total_no == Cuantos(last.datos, LAMBDA d : Canonico(d).se_realizo = "NO")
     IN  /\ Celda(ws, fila_totales, COL_REALIZADO_SI)
               = "TOTAL DE AUDIENCIAS REALIZADAS: " \o ToString(total_si)
         /\ Celda(ws, fila_totales, COL_REALIZADO_NO)
               = "TOTAL DE AUDIENCIAS NO REALIZADAS: " \o ToString(total_no)
         /\ \A k \in 1..8 :
               Celda(ws, fila_totales + 1, COL_MOTIVOS_INICIO + k - 1)
                 = motivos_nombres[k] \o ": " \o
                   ToString(Cuantos(last.datos,
                                    LAMBDA d : /\ Canonico(d).se_realizo = "NO"
                                               /\ Canonico(d).motivos[k] # ""))

\* V1 was held and names a reason, V3 and V4 were not held: one held, two not
\* held, two reasons in the first column and one in the third.
C4_Testigo ==
  /\ last.op = GUARDAR
  /\ last.res = "ok"
  /\ last.datos = <<V1, V3, V4>>
  /\ Celda(LibroDe(fs, last.nombre), FILA_ENCABEZADO + 4, COL_REALIZADO_SI)
       = "TOTAL DE AUDIENCIAS REALIZADAS: 1"
  /\ Celda(LibroDe(fs, last.nombre), FILA_ENCABEZADO + 5, COL_MOTIVOS_INICIO) = "Juez: 2"
  /\ Celda(LibroDe(fs, last.nombre), FILA_ENCABEZADO + 5, COL_MOTIVOS_INICIO + 2)
       = "Usuario: 1"

\* d passes validar_campos_audiencia and parse_fecha_hora
EsValido(d) == ValidaCampos(d) /\ parse_fecha_hora(d) # FECHA_INVALIDA

\* no workbook made from the template holds, on a row at or past the ceiling, a
\* value in any column of the records or of the totals (B to Q)
NadaDesdeElTecho(f) ==
  \A p \in DOMAIN f \ {AbsPath(PLANTILLA_PATH)} :
    \A r \in DOMAIN f[p] :
      r >= MAX_FILA_PERMITIDA => \A c \in Columnas \ {COL_NRO} : f[p][r][c] = ""

\* C5: guardar_audiencias_excel on a list of valid records so long that the
\* totals row would be at or past the ceiling (FILA_ENCABEZADO + N + 1 >=
\* MAX_FILA_PERMITIDA) fails for lack of room and leaves the directory as it
\* was; and no call ever leaves a record or a totals value on a row at or past
\* the ceiling.
C5_TechoRespetado ==
  [][ /\ (/\ last'.op = GUARDAR
          /\ ExisteLibro(fs, last'.nombre)
          /\ \A d \in Elementos(last'.datos) : EsValido(d)
          /\ FILA_ENCABEZADO + Len(last'.datos) + 1 >= MAX_FILA_PERMITIDA)
         => (last'.res \in {"capacidad", "sin_espacio_motivos"} /\ fs' = fs)
      /\ NadaDesdeElTecho(fs') ]_vars

\* a list whose totals row would be the ceiling row itself was refused, and
\* the workbook still holds the records it held
C5_Testigo ==
  /\ last.op = GUARDAR
  /\ last.res = "sin_espacio_motivos"
  /\ FILA_ENCABEZADO + Len(last.datos) + 1 = MAX_FILA_PERMITIDA
  /\ Len(LeerAudiencias(LibroDe(fs, last.nombre))) > 0

\* the workbook exportar_con_firma(nombre) copies, and the copy it makes
Origen(nombre) == AbsPath(Join(ARCHIVOS_DIR, NombreConExtension(nombre)))
Copia(nombre) ==
  AbsPath(Join(ARCHIVOS_DIR,
               Stem(NombreConExtension(nombre)) \o "_exportado_" \o HOY \o ".xlsx"))

\* the rows of ws that hold the signature text in column A
FilasDeFirma(ws) == {r \in DOMAIN ws : ws[r][1] = FIRMA_TEXTO}

\* C6: when exportar_con_firma succeeds on a workbook whose data rows are
\* followed by the totals row and the per-reason row, the copy holds every
\* data row, the totals row and the per-reason row with the values they have
\* in the source, and the signature is alone on a row below the per-reason
\* row.
C6_CopiaConservaTotales ==
  (last.op = EXPORTAR /\ last.res = "ok")
  => LET origen == fs[Origen(last.nombre)]
         copia == fs[Copia(last.nombre)]
         fila_totales == FILA_ENCABEZADO + Len(LeerAudiencias(origen)) + 1
     IN  (/\ StartsWith(Celda(origen, fila_totales, COL_REALIZADO_SI), "TOTAL DE")
          /\ Celda(origen, fila_totales + 1, COL_MOTIVOS_INICIO) # "")
         => /\ \A r \in (FILA_ENCABEZADO + 1)..(fila_totales + 1) :
                  Fila(copia, r) = Fila(origen, r)
            /\ \E r \in FilasDeFirma(copia) : r > fila_totales + 1

\* C7: exportar_con_firma leaves the workbook it copies as it was, whether it
\* succeeds or fails, and when that workbook does not exist it fails and the
\* directory holds the files it held, no more.
C7_ExportarNoTocaElOrigen ==
  [][ last'.op = EXPORTAR
      => IF Origen(last'.nombre) \in DOMAIN fs
         THEN /\ Origen(last'.nombre) \in DOMAIN fs'
              /\ fs'[Origen(last'.nombre)] = fs[Origen(last'.nombre)]
         ELSE last'.res = "no_existe" /\ fs' = fs ]_vars

\* a workbook with records was exported: the copy exists, carries the
\* signature and differs from the source
C7_Testigo ==
  /\ last.op = EXPORTAR
  /\ last.res = "ok"
  /\ Len(LeerAudiencias(fs[Origen(last.nombre)])) > 0
  /\ FilasDeFirma(fs[Copia(last.nombre)]) # {}
  /\ fs[Copia(last.nombre)] # fs[Origen(last.nombre)]

\* C8: when a record given to guardar_audiencias_excel, or the record given to
\* guardar_una_audiencia_excel, or a record that guardar_una_audiencia_excel
\* read from the workbook, fails validar_campos_audiencia or parse_fecha_hora,
\* the call fails and the directory is what it was before the call.
C8_InvalidoNoCambiaNada ==
  [][ (/\ last'.op \in {GUARDAR, GUARDAR_UNA}
       /\ \E d \in Elementos(last'.previos \o last'.datos) : ~EsValido(d))
      => (last'.res # "ok" /\ fs' = fs) ]_vars

\* a list whose last record has an answer that is neither SI nor NO was
\* refused, and the workbook still holds the records it held
C8_Testigo ==
  /\ last.op = GUARDAR
  /\ last.res = "validacion"
  /\ last.datos = <<V3, I3>>
  /\ Len(LeerAudiencias(LibroDe(fs, last.nombre))) > 0

\* C9: in every workbook made from the template no two data rows hold the same
\* case id, and guardar_audiencias_excel on a list that names one case id
\* twice fails.
C9_RadicadoUnico ==
  /\ \A p \in DOMAIN fs \ {AbsPath(PLANTILLA_PATH)} :
        LET leidos == LeerAudiencias(fs[p])
        IN  \A i, j \in 1..Len(leidos) :
              i < j => leidos[i].radicado # leidos[j].radicado
  /\ (/\ last.op = GUARDAR
      /\ \E i, j \in 1..Len(last.datos) :
            i < j /\ last.datos[i].radicado = last.datos[j].radicado)
     => last.res # "ok"

\* C10: a successful guardar_audiencias_excel leaves every row at or past the
\* ceiling with the values it had before the call.
C10_FilasDesdeElTechoIntactas ==
  [][ (last'.op = GUARDAR /\ last'.res = "ok")
      => LET antes == LibroDe(fs, last'.nombre)
             despues == LibroDe(fs', last'.nombre)
         IN  \A r \in DOMAIN antes \cup DOMAIN despues :
               r >= MAX_FILA_PERMITIDA => Fila(despues, r) = Fila(antes, r) ]_vars

\* the row of the per-reason totals when ws holds n records
FilaMotivos(n) == FILA_ENCABEZADO + n + 2

\* C11: when a workbook holds a signature row and guardar_audiencias_excel or
\* guardar_una_audiencia_excel succeeds on it with its data rows and its two
\* totals rows all above that signature row, the saved workbook still holds a
\* row with the signature text.
C11_FirmaConservada ==
  [][ (/\ last'.op \in {GUARDAR, GUARDAR_UNA}
       /\ last'.res = "ok"
       /\ FilasDeFirma(LibroDe(fs, last'.nombre)) # {}
       /\ \A r \in FilasDeFirma(LibroDe(fs, last'.nombre)) :
             FilaMotivos(Len(last'.previos \o last'.datos)) < r)
      => FilasDeFirma(LibroDe(fs', last'.nombre)) # {} ]_vars

\* the rows of ws whose column G or H holds a text that starts with "TOTAL DE"
FilasDeTotales(ws) ==
  {r \in DOMAIN ws : \/ StartsWith(ws[r][COL_REALIZADO_SI], "TOTAL DE")
                      \/ StartsWith(ws[r][COL_REALIZADO_NO], "TOTAL DE")}

\* the rows of ws that hold a per-reason total ("Juez: 2", ...) in a reason
\* column
FilasDeMotivos(ws) ==
  {r \in DOMAIN ws :
     \E k \in 1..8 : StartsWith(ws[r][COL_MOTIVOS_INICIO + k - 1], motivos_nombres[k] \o ": ")}

\* C12: after every successful guardar_audiencias_excel or
\* guardar_una_audiencia_excel the workbook with N data rows holds a totals
\* row on row FILA_ENCABEZADO + N + 1 and on no other row, and a per-reason
\* row on row FILA_ENCABEZADO + N + 2 and on no other row: no totals of an
\* earlier save remain in the sheet.
C12_UnSoloParDeTotales ==
  (last.op \in {GUARDAR, GUARDAR_UNA} /\ last.res = "ok")
  => LET ws == LibroDe(fs, last.nombre)
         N == Len(LeerAudiencias(ws))
     IN  /\ N = Len(last.previos \o last.datos)
         /\ FilasDeTotales(ws) = {FILA_ENCABEZADO + N + 1}
         /\ FilasDeMotivos(ws) = {FILA_ENCABEZADO + N + 2}

\* a record was added to a workbook that held two: the rows where the totals
\* of the earlier save were are now a data row and the totals row
C12_Testigo ==
  /\ last.op = GUARDAR_UNA
  /\ last.res = "ok"
  /\ Len(last.previos) = 2
  /\ FilasDeTotales(LibroDe(fs, last.nombre)) = {FILA_ENCABEZADO + 4}
  /\ Celda(LibroDe(fs, last.nombre), FILA_ENCABEZADO + 3, COL_RADICADO) # ""

CREAR == "crear_archivo"

\* C13: no call writes the template: the template is on disk after a call
\* exactly when it was before, with the content it had, and
\* guardar_audiencias_excel and guardar_una_audiencia_excel fail for every
\* name that leads to the template's path.
C13_PlantillaIntacta ==
  [][ LET plantilla == AbsPath(PLANTILLA_PATH) IN
      /\ (plantilla \in DOMAIN fs') = (plantilla \in DOMAIN fs)
      /\ plantilla \in DOMAIN fs => fs'[plantilla] = fs[plantilla]
      /\ (/\ last'.op \in {GUARDAR, GUARDAR_UNA}
          /\ AbsPath(Join(ARCHIVOS_DIR, last'.nombre)) = plantilla)
         => last'.res # "ok" ]_vars

\* a list with a record was given for a name that leads to the template, in a
\* directory where a workbook and the template exist: the call was refused
C13_Testigo ==
  /\ last.op = GUARDAR
  /\ last.nombre = NOMBRE_DE_PLANTILLA
  /\ last.datos = <<V1>>
  /\ last.res = "plantilla"
  /\ AbsPath(PLANTILLA_PATH) \in DOMAIN fs
  /\ ExisteLibro(fs, "a.xlsx")

\* C14: crear_archivo(nombre) fails, and leaves the directory as it was, when
\* the template is not on disk or when the workbook of that name (with .xlsx
\* added when the name does not end with it) exists; otherwise it succeeds,
\* the workbook of that name is a copy of the template and every other file
\* is as it was.
C14_CrearNoSobrescribe ==
  [][ last'.op = CREAR
      => LET plantilla == AbsPath(PLANTILLA_PATH)
             destino == AbsPath(Join(ARCHIVOS_DIR, NombreConExtension(last'.nombre)))
         IN  IF plantilla \notin DOMAIN fs \/ destino \in DOMAIN fs
             THEN last'.res # "ok" /\ fs' = fs
             ELSE /\ last'.res = "ok"
                  /\ DOMAIN fs' = DOMAIN fs \cup {destino}
                  /\ fs'[destino] = fs[plantilla]
                  /\ \A p \in DOMAIN fs : fs'[p] = fs[p] ]_vars

\* crear_archivo was refused for the name of a workbook that holds records,
\* and the records are still there
C14_Testigo ==
  /\ last.op = CREAR
  /\ last.res = "ya_existe"
  /\ last.nombre = "a"
  /\ Len(LeerAudiencias(LibroDe(fs, "a.xlsx"))) > 0

\* every field but the answer and the type is in sale what it is in d
OtrosCamposIguales(d, sale) ==
  \A c \in Campos \ {"se_realizo", "tipo_audiencia"} : sale[c] = d[c]

\* C15, as stated: validar_campos_audiencia fails when a required field is
\* missing or empty, when the type without the blanks around it is not in the
\* list, and when the answer is not "si" or "no" in some mix of capitals and
\* small letters; when it succeeds the answer is left in capitals, the type
\* without the blanks around it and every other field as it was.
C15_ValidadorComoSeEnuncia ==
  last.op = VALIDAR
  => /\ (\E i \in 1..Len(obligatorios) : last.d[obligatorios[i]] = "")
          => last.res = "validacion"
     /\ Strip(last.d.tipo_audiencia) \notin TIPOS_AUDIENCIA_VALIDOS
          => last.res = "validacion"
     /\ Upper(last.d.se_realizo) \notin {"SI", "NO"} => last.res = "validacion"
     /\ last.res = "ok"
          => /\ last.sale.se_realizo = Upper(last.d.se_realizo)
             /\ last.sale.se_realizo \in {"SI", "NO"}
             /\ last.sale.tipo_audiencia = Strip(last.d.tipo_audiencia)
             /\ OtrosCamposIguales(last.d, last.sale)

\* C15, amended: the answer is compared, and left, without the blanks around
\* it as well as in capitals; the call succeeds exactly when no required
\* field is empty, the type without blanks around it is in the list and the
\* answer without blanks around it is "si" or "no" in some mix of capitals and
\* small letters.
C15_Validador ==
  last.op = VALIDAR
  => LET d == last.d
         pasa == /\ \A i \in 1..Len(obligatorios) : d[obligatorios[i]] # ""
                 /\ Strip(d.tipo_audiencia) \in TIPOS_AUDIENCIA_VALIDOS
                 /\ Upper(Strip(d.se_realizo)) \in {"SI", "NO"}
     IN  /\ last.res = (IF pasa THEN "ok" ELSE "validacion")
         /\ pasa => /\ last.sale.se_realizo = Upper(Strip(d.se_realizo))
                     /\ last.sale.tipo_audiencia = Strip(d.tipo_audiencia)
                     /\ OtrosCamposIguales(d, last.sale)
         /\ ~pasa => last.sale = d

\* the answer " si " and the type " Otra " were accepted and left as "SI" and
\* "Otra"
C15_Testigo ==
  /\ last.op = VALIDAR
  /\ last.res = "ok"
  /\ last.d.se_realizo = " si "
  /\ last.d.tipo_audiencia = " Otra "
  /\ last.sale.se_realizo = "SI"
  /\ last.sale.tipo_audiencia = "Otra"

\* the case ids, without the blanks around them, of the records of s
Radicados(s) == {Recortar(s[i].radicado) : i \in 1..Len(s)}

\* thread h has returned from its call with the result res
Acabo(h, res) == hilos[h].pc = "fin" /\ hilos[h].res = res

\* C16: with calls of guardar_una_audiencia_excel that overlap on one
\* workbook, the workbook on disk holds the records the latest call to save
\* had read plus its own record and nothing else, so that of two calls that
\* read the same records, both succeed and bring different case ids, at most
\* one record is on disk; a call is rejected as a duplicate exactly when the
\* records it read held its case id, so that two calls with one case id both
\* succeed when both read before either saved.
C16_ActualizacionPerdida ==
  LET leidos == LeerAudiencias(LibroDe(fs, LIBRO)) IN
  /\ last.op = GUARDAR_UNA
       => Elementos(leidos) = {Canonico(d) : d \in Elementos(last.previos \o last.datos)}
  /\ \A h \in DOMAIN hilos :
        /\ Acabo(h, "duplicado") => Radicados(hilos[h].d) \subseteq Radicados(hilos[h].existentes)
        /\ (hilos[h].pc \in {"leido", "cargado"} \/ Acabo(h, "ok"))
             => Radicados(hilos[h].d) \cap Radicados(hilos[h].existentes) = {}
  /\ \A h1, h2 \in DOMAIN hilos :
        (/\ h1 # h2
         /\ Acabo(h1, "ok") /\ Acabo(h2, "ok")
         /\ hilos[h1].existentes = hilos[h2].existentes
         /\ last.previos = hilos[h1].existentes
         /\ Radicados(hilos[h1].d) # Radicados(hilos[h2].d))
        => ~(Radicados(hilos[h1].d) \cup Radicados(hilos[h2].d) \subseteq Radicados(leidos))

\* Two calls read the same records, one brought V1 and the other V3, both
\* returned a count, and the workbook holds one record more than they read.
C16_Testigo ==
  /\ Acabo(1, "ok") /\ Acabo(2, "ok")
  /\ hilos[1].d = <<V1>> /\ hilos[2].d = <<V3>>
  /\ hilos[1].existentes = hilos[2].existentes
  /\ hilos[1].n = hilos[2].n
  /\ Len(LeerAudiencias(LibroDe(fs, LIBRO))) = Len(hilos[1].existentes) + 1

\* Two calls with the case id R1: both read before either saved and both
\* returned a count; or one read after the other had saved and was rejected.
C16_MismoRadicadoAmbosGuardan ==
  /\ Acabo(1, "ok") /\ Acabo(2, "ok")
  /\ hilos[1].d = <<V1>> /\ hilos[2].d = <<V2>>
  /\ hilos[1].existentes = hilos[2].existentes

C16_MismoRadicadoUnoRechazado ==
  /\ Acabo(1, "ok") /\ Acabo(2, "duplicado")
  /\ hilos[1].d = <<V1>> /\ hilos[2].d = <<V2>>
  /\ Len(hilos[2].existentes) = Len(hilos[1].existentes) + 1

\* C20: with each save taken as one step, whatever the order of the steps of
\* overlapping calls of guardar_una_audiencia_excel on a workbook whose case
\* ids are all different, the workbook on disk never holds two data rows with
\* one case id (compared, as the call compares them, without the blanks around
\* them), and no row below the header holds a case id outside the data region.
C20_RadicadosDistintosEnDisco ==
  LET ws == LibroDe(fs, LIBRO)
      leidos == LeerAudiencias(ws)
  IN  /\ \A i, j \in 1..Len(leidos) :
            i < j => Recortar(leidos[i].radicado) # Recortar(leidos[j].radicado)
      /\ \A r \in DOMAIN ws :
            (r > FILA_ENCABEZADO + Len(leidos)) => Celda(ws, r, COL_RADICADO) = ""

\* Two calls brought the case id R1, as "R1" and as " R1 ", read the same
\* records and both saved; a third record is on disk beside one of them only.
C20_Testigo ==
  /\ Acabo(1, "ok") /\ Acabo(2, "ok")
  /\ hilos[1].d = <<V2>> /\ hilos[2].d = <<V1>>
  /\ hilos[1].existentes = hilos[2].existentes
  /\ Cardinality({i \in 1..Len(LeerAudiencias(LibroDe(fs, LIBRO))) :
                    Recortar(LeerAudiencias(LibroDe(fs, LIBRO))[i].radicado) = "R1"}) = 1
  /\ Len(LeerAudiencias(LibroDe(fs, LIBRO))) >= 2

\* a record as a data row holds it: Canonico(d) with its first eight reasons
EnLibro(d) == [Canonico(d) EXCEPT !.motivos = [i \in 1..8 |-> Canonico(d).motivos[i]]]

\* the lists s and t hold the same records the same number of times
MismosRegistros(s, t) ==
  /\ Len(s) = Len(t)
  /\ \A x \in Elementos(s) : Cuantos(s, LAMBDA y : y = x) = Cuantos(t, LAMBDA y : y = x)

\* C17: when guardar_una_audiencia_excel calls follow one another, each one
\* that succeeds leaves in the workbook the records it held before, each as it
\* was, and the new record, and returns the number of records held before
\* plus one.
C17_AgregaUnoYConservaLosDemas ==
  (last.op = GUARDAR_UNA /\ last.res = "ok")
  => /\ MismosRegistros(LeerAudiencias(LibroDe(fs, last.nombre)),
                         last.previos \o <<EnLibro(last.datos[1])>>)
     /\ last.n = Len(last.previos) + 1

\* V1, answered "si", was added to a workbook that held no record: one record
\* answered "SI" comes back, and the totals row reads one held, none not held.
C17_Testigo ==
  /\ last.op = GUARDAR_UNA
  /\ last.res = "ok"
  /\ last.datos = <<V1>>
  /\ last.previos = <<>>
  /\ last.n = 1
  /\ LeerAudiencias(LibroDe(fs, last.nombre)) = <<EnLibro(V1)>>
  /\ EnLibro(V1).se_realizo = "SI"
  /\ Celda(LibroDe(fs, last.nombre), FILA_ENCABEZADO + 2, COL_REALIZADO_SI)
       = "TOTAL DE AUDIENCIAS REALIZADAS: 1"
  /\ Celda(LibroDe(fs, last.nombre), FILA_ENCABEZADO + 2, COL_REALIZADO_NO)
       = "TOTAL DE AUDIENCIAS NO REALIZADAS: 0"

\* C18: in every workbook made from the template, each data row has "X" in
\* exactly one of the columns G and H and nothing in the other, and is read
\* back with the answer of that column, never with an empty one; after a
\* successful save each row is read back with the answer of the record it was
\* written from.
C18_UnaSolaMarca ==
  /\ \A p \in DOMAIN fs \ {AbsPath(PLANTILLA_PATH)} :
        LET leidos == LeerAudiencias(fs[p]) IN
        \A i \in 1..Len(leidos) :
          LET si == Celda(fs[p], FILA_ENCABEZADO + i, COL_REALIZADO_SI)
              no == Celda(fs[p], FILA_ENCABEZADO + i, COL_REALIZADO_NO)
          IN  /\ <<si, no>> \in {<<"X", "">>, <<"", "X">>}
              /\ leidos[i].se_realizo = (IF si = "X" THEN "SI" ELSE "NO")
  /\ (last.op \in {GUARDAR, GUARDAR_UNA} /\ last.res = "ok")
       => LET leidos == LeerAudiencias(LibroDe(fs, last.nombre))
              escritos == last.previos \o last.datos
          IN  \A i \in 1..Len(leidos) :
                \E j \in 1..Len(escritos) :
                  /\ Clave(escritos[j]) = Clave(leidos[i])
                  /\ Mayusculizar(Recortar(escritos[j].se_realizo)) = leidos[i].se_realizo

\* V3 "no", V4 "No" and V1 "si" were saved: the rows of V3 and V4 have their
\* mark in column H, the row of V1 in column G.
C18_Testigo ==
  /\ last.op = GUARDAR
  /\ last.res = "ok"
  /\ last.datos = <<V1, V3, V4>>
  /\ Celda(LibroDe(fs, last.nombre), FILA_ENCABEZADO + 1, COL_REALIZADO_NO) = "X"
  /\ Celda(LibroDe(fs, last.nombre), FILA_ENCABEZADO + 2, COL_REALIZADO_NO) = "X"
  /\ Celda(LibroDe(fs, last.nombre), FILA_ENCABEZADO + 3, COL_REALIZADO_SI) = "X"
  /\ Celda(LibroDe(fs, last.nombre), FILA_ENCABEZADO + 3, COL_REALIZADO_NO) = ""
  /\ LeerAudiencias(LibroDe(fs, last.nombre))[3].se_realizo = "SI"

\* the reasons of d past the eighth
MotivosDeMas(d) == {d.motivos[k] : k \in 9..Len(d.motivos)}

\* the values a save writes for the list s: what the fields of its records
\* hold and their first eight reasons
ValoresEscritos(s) ==
  UNION { {s[j].radicado, s[j].tipo_audiencia, s[j].fecha, s[j].hora, s[j].juzgado,
           s[j].observaciones}
          \cup {s[j].motivos[k] : k \in 1..(IF Len(s[j].motivos) > 8 THEN 8
                                              ELSE Len(s[j].motivos))} :
          j \in 1..Len(s) }

\* C19: after a successful save, each data row was written from a record of
\* the list whose reason k (k from 1 to 8, as far as it has that many) is in
\* the k-th of the eight reason columns of the row, whose other reason columns
\* are empty and whose notes column holds its notes as given; a record with
\* more than eight reasons is saved all the same, and its reasons past the
\* eighth are in no cell of the workbook.
C19_OchoMotivosPorPosicion ==
  (last.op \in {GUARDAR, GUARDAR_UNA} /\ last.res = "ok")
  => LET ws == LibroDe(fs, last.nombre)
         escritos == last.previos \o last.datos
     IN  /\ \A i \in 1..Len(escritos) :
               \E j \in 1..Len(escritos) :
                 /\ Celda(ws, FILA_ENCABEZADO + i, COL_RADICADO) = escritos[j].radicado
                 /\ Celda(ws, FILA_ENCABEZADO + i, COL_JUZGADO) = escritos[j].juzgado
                 /\ Celda(ws, FILA_ENCABEZADO + i, COL_OBSERVACIONES) = escritos[j].observaciones
                 /\ \A k \in 1..8 :
                       Celda(ws, FILA_ENCABEZADO + i, COL_MOTIVOS_INICIO + k - 1)
                         = (IF k <= Len(escritos[j].motivos) THEN escritos[j].motivos[k]
                            ELSE "")
         /\ \A j \in 1..Len(escritos) :
               \A m \in MotivosDeMas(escritos[j]) \ ValoresEscritos(escritos) :
                 \A r \in DOMAIN ws : \A c \in Columnas : Celda(ws, r, c) # m

\* V5, with nine reasons, and V2, with two, were saved: the row of V5 holds
\* its first eight reasons, the second of them empty, and its ninth reason
\* "i" is nowhere; the row of V2 holds "Fiscal" in the second reason column
\* and nothing in the others.
C19_Testigo ==
  /\ last.op = GUARDAR
  /\ last.res = "ok"
  /\ last.datos = <<V5, V2>>
  /\ Len(V5.motivos) = 9
  /\ \A k \in 1..8 :
        Celda(LibroDe(fs, last.nombre), FILA_ENCABEZADO + 1, COL_MOTIVOS_INICIO + k - 1)
          = V5.motivos[k]
  /\ \A k \in 1..8 :
        Celda(LibroDe(fs, last.nombre), FILA_ENCABEZADO + 2, COL_MOTIVOS_INICIO + k - 1)
          = (IF k = 2 THEN "Fiscal" ELSE "")
  /\ \A r \in DOMAIN LibroDe(fs, last.nombre) : \A c \in Columnas :
        Celda(LibroDe(fs, last.nombre), r, c) # V5.motivos[9]

\* C21: guardar_audiencias_excel on N valid records and a workbook of the
\* directory succeeds exactly when N <= MAX_FILA_PERMITIDA - FILA_ENCABEZADO -
\* 3; when the totals row FILA_ENCABEZADO + N + 1 is the row before the
\* ceiling or the ceiling row itself, the call passes the check of the totals
\* row and is refused by the check of the per-reason row; the check of the
\* totals row refuses exactly when FILA_ENCABEZADO + N + 1 >
\* MAX_FILA_PERMITIDA.
C21_CapacidadExacta ==
  (/\ last.op = GUARDAR
   /\ ExisteLibro(fs, last.nombre)
   /\ \A d \in Elementos(last.datos) : EsValido(d))
  => LET N == Len(last.datos)
         fila_totales == FILA_ENCABEZADO + N + 1
     IN  /\ last.res = "ok" <=> N <= MAX_FILA_PERMITIDA - FILA_ENCABEZADO - 3
         /\ last.res = "sin_espacio_motivos"
               <=> fila_totales \in {MAX_FILA_PERMITIDA - 1, MAX_FILA_PERMITIDA}
         /\ last.res = "capacidad" <=> fila_totales > MAX_FILA_PERMITIDA
         /\ last.res = "ok"
               => Len(LeerAudiencias(LibroDe(fs, last.nombre))) = N

\* a list whose totals row would be the row before the ceiling, one record
\* more than the longest list that is saved, was refused by the check of the
\* per-reason row
C21_Testigo ==
  /\ last.op = GUARDAR
  /\ last.res = "sin_espacio_motivos"
  /\ Len(last.datos) = MAX_FILA_PERMITIDA - FILA_ENCABEZADO - 2
  /\ FILA_ENCABEZADO + Len(last.datos) + 1 = MAX_FILA_PERMITIDA - 1

\* the longest list that is saved, and the shortest one that the check of the
\* totals row refuses
C21_ElMasLargoGuardado ==
  /\ last.op = GUARDAR
  /\ last.res = "ok"
  /\ Len(last.datos) = MAX_FILA_PERMITIDA - FILA_ENCABEZADO - 3
  /\ Celda(LibroDe(fs, last.nombre), MAX_FILA_PERMITIDA - 1, COL_MOTIVOS_INICIO) # ""

C21_RechazoPorTotales ==
  /\ last.op = GUARDAR
  /\ last.res = "capacidad"
  /\ FILA_ENCABEZADO + Len(last.datos) + 1 = MAX_FILA_PERMITIDA + 1

====
